---------------------------- MODULE Spec2Model ----------------------------
(***************************************************************************)
(* Maze game (src/src/main.cpp): the Maze class (randomized depth-first    *)
(* generation, isWall / isExit queries), the Player class (cooldown-gated  *)
(* movement) and the session life cycle of main's game loop.               *)
(*                                                                         *)
(* Abstractions, all stated here:                                          *)
(*  - time is counted in ticks of 0.1 s, so moveCooldown (0.2f) is 2; the  *)
(*    rounding of GetTime()'s double to float is not modelled;             *)
(*  - rendering, textures, music and selectedCharacter (which only picks   *)
(*    textures) are left out: none of them is read by Maze or Player;      *)
(*  - an access outside an allocation, a use of a deleted object and a     *)
(*    second delete are undefined behaviour: the model records the fault   *)
(*    and then either stops ("crashed") or goes on with the model's state  *)
(*    untouched.                                                           *)
(***************************************************************************)
EXTENDS Integers, Sequences, FiniteSets

\* Clock cap, in ticks: GetTime() never exceeds MaxTime in the model.
MaxTime == 6

\* Player::moveCooldown, 0.2f seconds, in ticks of 0.1 s.
moveCooldown == 2

\* Screen sizes (GetScreenWidth(), GetScreenHeight()) the game loop is run
\* with: they give the mazes 3x1, 3x2, 5x3, then 4x2, 5x2, 6x3, then 2x2, 3x3, 4x4.
Screens == { <<150, 90>>, <<200, 100>>, <<120, 120>> }

\* The (width, height) pairs the Maze constructor is called with on its own:
\* odd and even sizes from 3 to 5, and sizes below 3.
Dims == { <<3, 3>>, <<4, 3>>, <<3, 4>>, <<5, 3>>, <<4, 4>>, <<5, 4>>, <<5, 5>>,
          <<2, 2>>, <<2, 4>>, <<1, 3>>, <<3, 1>> }

VARIABLES
    pc,                     \* position in main
    screenWidth,            \* main: float screenWidth
    screenHeight,           \* main: float screenHeight
    selectedButton,         \* main: int selectedButton
    showCharacterSelection, \* main: bool showCharacterSelection
    difficulty,             \* main: int difficulty
    gameStarted,            \* main: bool gameStarted
    mazePtr,                \* main: Maze* maze      ("null", "live", "dangling")
    playerPtr,              \* main: Player* player  ("null", "live", "dangling")
    maze,                   \* the Maze object's fields
    player,                 \* the Player object's fields
    stack,                  \* call stack of generateMazeRecursive
    key,                    \* which of lines 316..319 the frame is at (0..3)
    now,                    \* last value GetTime() returned
    fault,                  \* first undefined behaviour met, or "none"
    lastCall,               \* history: the last Player::move call of this frame
    bumpTime,               \* history: time of the session's last wall bump, or -1
    changeTime,             \* history: time of the session's last position change, or -1
    calls                   \* history: calls of generateMazeRecursive made for this maze

vars == << pc, screenWidth, screenHeight, selectedButton, showCharacterSelection,
           difficulty, gameStarted, mazePtr, playerPtr, maze, player, stack, key,
           now, fault, lastCall, bumpTime, changeTime, calls >>

---------------------------------------------------------------------------
\* Mutant of NewCell: a cell starts as a passage.
NewCellOpen == [isWall |-> FALSE, visited |-> FALSE]

\* Cell::Cell(): a wall, not visited.
NewCell == [isWall |-> TRUE, visited |-> FALSE]

\* The fields of a Maze that is not allocated (or whose storage was freed).
NoMaze == [width |-> 0, height |-> 0, grid |-> << >>, exitX |-> 0, exitY |-> 0]

\* The fields of a Player that is not allocated (or whose storage was freed).
NoPlayer == [x |-> 0, y |-> 0, lastMoveTime |-> 0]

\* No Player::move call made yet in this frame.
NoCall == [dx |-> 0, dy |-> 0, time |-> 0, result |-> "none"]

\* Maze::isInsideGrid
isInsideGrid(m, x, y) == x >= 0 /\ x < m.width /\ y >= 0 /\ y < m.height

\* Mutant of isWall: coordinates outside the grid are reported open.
isWallOpenOutside(m, x, y) ==
    IF ~isInsideGrid(m, x, y) THEN FALSE ELSE m.grid[y][x].isWall

\* Maze::isWall
isWall(m, x, y) ==
    IF ~isInsideGrid(m, x, y) THEN TRUE ELSE m.grid[y][x].isWall

\* Maze::isExit
isExit(m, x, y) == x = m.exitX /\ y = m.exitY

\* int directions[4][2] as initialised in generateMazeRecursive.
InitialDirections ==
    [i \in 0..3 |-> CASE i = 0 -> <<0, -1>>
                      [] i = 1 -> <<0, 1>>
                      [] i = 2 -> <<-1, 0>>
                      [] i = 3 -> <<1, 0>>]

\* The results GetRandomValue(i, 3) can give for i = 0..3.
Draws == { j \in [0..3 -> 0..3] : \A i \in 0..3 : j[i] >= i }

\* Mutant of SwapDirections: directions[j] is not written back.
SwapDirectionsNoTemp(d, i, j) == [d EXCEPT ![i] = d[j]]

\* One iteration of the shuffle loop: swap directions[i] and directions[j].
SwapDirections(d, i, j) == [d EXCEPT ![i] = d[j], ![j] = d[i]]

\* The shuffle loop of generateMazeRecursive, iterations i..3, with draws j.
RECURSIVE ShuffleFrom(_, _, _)
ShuffleFrom(d, i, j) ==
    IF i >= 4 THEN d ELSE ShuffleFrom(SwapDirections(d, i, j[i]), i + 1, j)

\* The whole shuffle loop.
Shuffle(j) == ShuffleFrom(InitialDirections, 0, j)

\* Mutant of MarkCell: line 31 is left out.
MarkCellUnvisited(m, x, y) == [m EXCEPT !.grid[y][x].isWall = FALSE]

\* grid[y][x].visited = true; grid[y][x].isWall = false (in-grid cell).
MarkCell(m, x, y) ==
    [m EXCEPT !.grid[y][x] = [isWall |-> FALSE, visited |-> TRUE]]

\* grid[y][x].isWall = false (in-grid cell).
ClearWall(m, x, y) == [m EXCEPT !.grid[y][x].isWall = FALSE]

\* The frame of a call generateMazeRecursive(x, y) after its shuffle loop.
NewFrame(x, y, j) == [x |-> x, y |-> y, directions |-> Shuffle(j), i |-> 0]

\* The two-step neighbour of frame f in its direction k.
NextCell(f, k) == << f.x + f.directions[k][1] * 2, f.y + f.directions[k][2] * 2 >>

\* The cell between frame f's cell and its two-step neighbour in direction k.
Between(f, k) == << f.x + f.directions[k][1], f.y + f.directions[k][2] >>

\* Mutant of CanCarve: the visited test of line 51 is left out.
CanCarveAnyInside(m, f, k) ==
    isInsideGrid(m, NextCell(f, k)[1], NextCell(f, k)[2])

\* The condition of line 51 for frame f and direction index k.
CanCarve(m, f, k) ==
    /\ isInsideGrid(m, NextCell(f, k)[1], NextCell(f, k)[2])
    /\ ~m.grid[NextCell(f, k)[2]][NextCell(f, k)[1]].visited

\* The indices from f.i on at which the condition of line 51 holds.
Carvable(m, f) == { k \in f.i..3 : CanCarve(m, f, k) }

\* The least element of a non-empty set of integers.
Least(S) == CHOOSE k \in S : \A l \in S : k <= l

\* int cellSize = (difficulty == 1) ? 50 : (difficulty == 2) ? 40 : 30;
CellSizeOf(d) == IF d = 1 THEN 50 ELSE IF d = 2 THEN 40 ELSE 30

\* new Cell*[height], each new Cell[width].
NewGrid(w, h) == [y \in 0..(h - 1) |-> [x \in 0..(w - 1) |-> NewCell]]

\* The Maze object when its constructor calls generateMaze (lines 60-67);
\* exitX and exitY are not set yet.
NewMaze(w, h) ==
    [width |-> w, height |-> h, grid |-> NewGrid(w, h), exitX |-> 0, exitY |-> 0]

---------------------------------------------------------------------------
Init ==
    /\ pc = "loop"
    /\ \E s \in Screens : screenWidth = s[1] /\ screenHeight = s[2]
    /\ selectedButton = 0
    /\ showCharacterSelection = FALSE
    /\ difficulty = 1
    /\ gameStarted = FALSE
    /\ mazePtr = "null"
    /\ playerPtr = "null"
    /\ maze = NoMaze
    /\ player = NoPlayer
    /\ stack = << >>
    /\ key = 0
    /\ now = 0
    /\ fault = "none"
    /\ lastCall = NoCall
    /\ bumpTime = -1
    /\ changeTime = -1
    /\ calls = 0

\* choix(selectedButton, 4) with the DOWN and UP key presses given.
choix(sel, n, down, up) ==
    LET s1 == IF down THEN (sel + 1) % n ELSE sel
    IN  IF up THEN (s1 - 1 + n) % n ELSE s1

\* A menu frame of the difficulty screen (lines 235-244), ENTER not on Exit.
MenuFrame ==
    /\ pc = "loop" /\ ~gameStarted /\ ~showCharacterSelection
    /\ \E down \in BOOLEAN, up \in BOOLEAN, enter \in BOOLEAN :
        LET sel == choix(selectedButton, 4, down, up) IN
        /\ ~(enter /\ sel = 3)
        /\ selectedButton' = sel
        /\ difficulty' = IF enter THEN sel + 1 ELSE difficulty
        /\ showCharacterSelection' = enter
    /\ UNCHANGED << pc, screenWidth, screenHeight, gameStarted, mazePtr, playerPtr,
                    maze, player, stack, key, now, fault, lastCall, bumpTime,
                    changeTime,
                    calls >>

\* ENTER on the Exit button of the difficulty screen: break (lines 236-239).
MenuExit ==
    /\ pc = "loop" /\ ~gameStarted /\ ~showCharacterSelection
    /\ \E down \in BOOLEAN, up \in BOOLEAN :
        /\ choix(selectedButton, 4, down, up) = 3
        /\ selectedButton' = 3
    /\ pc' = "cleanup"
    /\ UNCHANGED << screenWidth, screenHeight, showCharacterSelection, difficulty,
                    gameStarted, mazePtr, playerPtr, maze, player, stack, key, now,
                    fault, lastCall, bumpTime, changeTime,
                    calls >>

\* WindowShouldClose() is true at the head of the loop (line 230).
WindowClose ==
    /\ pc = "loop"
    /\ pc' = "cleanup"
    /\ UNCHANGED << screenWidth, screenHeight, selectedButton,
                    showCharacterSelection, difficulty, gameStarted, mazePtr,
                    playerPtr, maze, player, stack, key, now, fault, lastCall,
                    bumpTime, changeTime,
                    calls >>

\* The call stack when control next reaches the call of line 53, or leaves
\* generateMaze (the empty stack), after the callee of the innermost frame
\* of st has returned: each loop of lines 48-55 goes on from its next index to
\* the first direction whose two-step neighbour is inside the grid and
\* unvisited, and returns to its caller when there is none.
RECURSIVE Resume(_, _)
Resume(m, st) ==
    IF st = << >> THEN st
    ELSE LET n == Len(st)
             f == [st[n] EXCEPT !.i = st[n].i + 1]
         IN  IF Carvable(m, f) # {}
             THEN [st EXCEPT ![n] = [f EXCEPT !.i = Least(Carvable(m, f))]]
             ELSE Resume(m, SubSeq(st, 1, n - 1))

\* Mutant of CarveFor: line 52 is left out.
CarveForSkipped(m, st) == m

\* Line 52 for the innermost frame of st, suspended at its call of line 53.
CarveFor(m, st) ==
    IF st = << >> THEN m
    ELSE LET f == st[Len(st)]
         IN  ClearWall(m, Between(f, f.i)[1], Between(f, f.i)[2])

\* The cell the pending call of generateMazeRecursive is made on: (1,1) from
\* generateMaze, else the two-step neighbour of the innermost frame.
Target(st) ==
    IF st = << >> THEN <<1, 1>> ELSE NextCell(st[Len(st)], st[Len(st)].i)

\* The Maze constructor up to its call of generateMaze (lines 60-67), for the
\* dimensions main computes (lines 250-253).
StartGame ==
    /\ pc = "loop" /\ ~gameStarted /\ showCharacterSelection
    /\ gameStarted' = TRUE
    /\ LET cellSize == CellSizeOf(difficulty)
           mazeWidth == screenWidth \div cellSize
           mazeHeight == screenHeight \div cellSize
       IN  maze' = NewMaze(mazeWidth, mazeHeight)
    /\ stack' = << >>
    /\ pc' = "gen"
    /\ calls' = 0
    /\ UNCHANGED << screenWidth, screenHeight, selectedButton,
                    showCharacterSelection, difficulty, mazePtr, playerPtr, player,
                    key, now, fault, lastCall, bumpTime, changeTime >>

\* The maze and the call stack after the pending call of generateMazeRecursive
\* has run, with shuffle draws j, up to the next call of line 53 or to the
\* return of generateMaze: lines 31-32 mark the cell, lines 35-45 shuffle, and
\* the loop of lines 48-55 opens the cell towards the first direction it can
\* carve (line 52) and calls, or finds none and returns to the callers' loops.
AfterCall(m, st, j) ==
    LET t  == Target(st)
        m1 == IF isInsideGrid(m, t[1], t[2]) THEN MarkCell(m, t[1], t[2]) ELSE m
        f  == NewFrame(t[1], t[2], j)
        s1 == IF Carvable(m1, f) # {}
              THEN Append(st, [f EXCEPT !.i = Least(Carvable(m1, f))])
              ELSE Resume(m1, st)
    IN  [maze |-> CarveFor(m1, s1), stack |-> s1,
         returned |-> (Carvable(m1, f) = {} /\ s1 = << >>)]

\* One call of generateMazeRecursive on a cell of the grid.
GenCall ==
    /\ pc = "gen"
    /\ isInsideGrid(maze, Target(stack)[1], Target(stack)[2])
    /\ \E r \in { AfterCall(maze, stack, j) : j \in Draws } :
        /\ maze' = r.maze
        /\ stack' = r.stack
        /\ pc' = IF r.returned THEN "built" ELSE "gen"
    /\ calls' = calls + 1
    /\ UNCHANGED << screenWidth, screenHeight, selectedButton,
                    showCharacterSelection, difficulty, gameStarted, mazePtr,
                    playerPtr, player, key, now, fault, lastCall, bumpTime,
                    changeTime >>

\* generateMaze's call generateMazeRecursive(1, 1) when (1,1) is not a cell
\* of the grid: the writes of lines 31-32 fall outside the allocation.
GenCallOutside ==
    /\ pc = "gen"
    /\ ~isInsideGrid(maze, Target(stack)[1], Target(stack)[2])
    /\ fault' = IF fault = "none" THEN "out_of_bounds" ELSE fault
    /\ \/ /\ pc' = "crashed"
          /\ UNCHANGED << maze, stack >>
       \/ \E r \in { AfterCall(maze, stack, j) : j \in Draws } :
            /\ maze' = r.maze
            /\ stack' = r.stack
            /\ pc' = IF r.returned THEN "built" ELSE "gen"
    /\ calls' = calls + 1
    /\ UNCHANGED << screenWidth, screenHeight, selectedButton,
                    showCharacterSelection, difficulty, gameStarted, mazePtr,
                    playerPtr, player, key, now, lastCall, bumpTime, changeTime >>

\* Player::Player(1, 1, cellSize)
NewPlayer == [x |-> 1, y |-> 1, lastMoveTime |-> 0]

\* Mutant of WithExit: the exit is placed one cell further up and left.
WithExitShifted(m) == [m EXCEPT !.exitX = m.width - 3, !.exitY = m.height - 3]

\* Mutant of WithExit: the exit is placed on the last column and row.
WithExitCorner(m) == [m EXCEPT !.exitX = m.width - 1, !.exitY = m.height - 1]

\* exitX = width - 2; exitY = height - 2 (lines 70-71).
WithExit(m) == [m EXCEPT !.exitX = m.width - 2, !.exitY = m.height - 2]

\* Mutant of OpenExit: line 72 is left out.
OpenExitSkipped(m) == m

\* grid[exitY][exitX].isWall = false (line 72), the exit being a cell of the grid.
OpenExit(m) == ClearWall(m, m.exitX, m.exitY)

\* The end of the Maze constructor (lines 69-72) once generateMaze has
\* returned, then line 268. The write of line 72 falls outside the grid when
\* (width-2, height-2) is not a cell of it.
FinishMaze ==
    /\ pc = "built"
    /\ LET m == WithExit(maze)
       IN  IF isInsideGrid(m, m.exitX, m.exitY)
           THEN /\ maze' = OpenExit(m)
                /\ pc' = "loop"
                /\ fault' = fault
           ELSE /\ fault' = IF fault = "none" THEN "out_of_bounds" ELSE fault
                /\ \/ /\ pc' = "crashed"
                      /\ maze' = NoMaze
                   \/ /\ pc' = "loop"
                      /\ maze' = m
    /\ mazePtr' = IF pc' = "crashed" THEN mazePtr ELSE "live"
    /\ playerPtr' = IF pc' = "crashed" THEN playerPtr ELSE "live"
    /\ player' = IF pc' = "crashed" THEN player ELSE NewPlayer
    /\ bumpTime' = -1
    /\ changeTime' = -1
    /\ UNCHANGED << screenWidth, screenHeight, selectedButton,
                    showCharacterSelection, difficulty, gameStarted, stack, key,
                    now, lastCall, calls >>

\* The deltas main passes to Player::move for KEY_UP, KEY_DOWN, KEY_LEFT and
\* KEY_RIGHT, in the order of lines 316-319.
KeyDelta(k) ==
    CASE k = 0 -> <<0, -1>>
      [] k = 1 -> <<0, 1>>
      [] k = 2 -> <<-1, 0>>
      [] k = 3 -> <<1, 0>>

\* Mutant of CooldownPassed: the cooldown test is left out.
CooldownIgnored(p, currentTime) == TRUE

\* Mutant of CooldownPassed: the cooldown is taken one tick short.
CooldownShort(p, currentTime) == currentTime - p.lastMoveTime >= moveCooldown - 1

\* The condition of line 134.
CooldownPassed(p, currentTime) == currentTime - p.lastMoveTime >= moveCooldown

\* Mutant of move: line 141 is reached only when the player moves.
moveKeepsTimerOnWall(p, dx, dy, currentTime, m) ==
    IF CooldownPassed(p, currentTime) /\ ~isWall(m, p.x + dx, p.y + dy)
    THEN [x |-> p.x + dx, y |-> p.y + dy, lastMoveTime |-> currentTime]
    ELSE p

\* Mutant of move: line 139 is left out.
moveRowOnly(p, dx, dy, currentTime, m) ==
    IF CooldownPassed(p, currentTime)
    THEN IF ~isWall(m, p.x + dx, p.y + dy)
         THEN [x |-> p.x + dx, y |-> p.y, lastMoveTime |-> currentTime]
         ELSE [p EXCEPT !.lastMoveTime = currentTime]
    ELSE p

\* Mutant of move: the wall test of line 137 is left out.
moveThroughWalls(p, dx, dy, currentTime, m) ==
    IF CooldownPassed(p, currentTime)
    THEN [x |-> p.x + dx, y |-> p.y + dy, lastMoveTime |-> currentTime]
    ELSE p

\* Player::move(dx, dy, maze) when GetTime() returns currentTime.
move(p, dx, dy, currentTime, m) ==
    IF CooldownPassed(p, currentTime)
    THEN LET newX == p.x + dx
             newY == p.y + dy
         IN  IF ~isWall(m, newX, newY)
             THEN [x |-> newX, y |-> newY, lastMoveTime |-> currentTime]
             ELSE [p EXCEPT !.lastMoveTime = currentTime]
    ELSE p

\* What a call of Player::move did: history only.
CallResult(p, dx, dy, currentTime, m) ==
    IF ~CooldownPassed(p, currentTime) THEN "cooldown"
    ELSE IF isWall(m, p.x + dx, p.y + dy) THEN "wall" ELSE "moved"

\* The position in main after the key line numbered k (lines 316-319).
AfterKey(k) == IF k = 3 THEN "exit" ELSE "key"

\* A frame of the game begins (lines 230-231, 312-313).
PlayBegin ==
    /\ pc = "loop" /\ gameStarted
    /\ pc' = "key"
    /\ key' = 0
    /\ lastCall' = NoCall
    /\ UNCHANGED << screenWidth, screenHeight, selectedButton,
                    showCharacterSelection, difficulty, gameStarted, mazePtr,
                    playerPtr, maze, player, stack, now, fault, bumpTime,
                    changeTime,
                    calls >>

\* One of lines 316-319 with its key up: no call.
KeyUp ==
    /\ pc = "key"
    /\ pc' = AfterKey(key)
    /\ key' = (key + 1) % 4
    /\ UNCHANGED << screenWidth, screenHeight, selectedButton,
                    showCharacterSelection, difficulty, gameStarted, mazePtr,
                    playerPtr, maze, player, stack, now, fault, lastCall,
                    bumpTime, changeTime,
                    calls >>

\* A call player->move(dx, dy, *maze) in which GetTime() returns currentTime.
MoveCall(dx, dy, currentTime) ==
    LET r == CallResult(player, dx, dy, currentTime, maze) IN
    /\ player' = move(player, dx, dy, currentTime, maze)
    /\ now' = currentTime
    /\ lastCall' = [dx |-> dx, dy |-> dy, time |-> currentTime, result |-> r]
    /\ bumpTime' = IF r = "wall" THEN currentTime ELSE bumpTime
    /\ changeTime' = IF r = "moved" THEN currentTime ELSE changeTime

\* Mutant of KeyDown: a call towards a wall of the grid opens that wall.
KeyDownDigging ==
    /\ pc = "key"
    /\ \E currentTime \in now..MaxTime :
        MoveCall(KeyDelta(key)[1], KeyDelta(key)[2], currentTime)
    /\ LET x == player.x + KeyDelta(key)[1]
           y == player.y + KeyDelta(key)[2]
       IN  maze' = IF isInsideGrid(maze, x, y) THEN ClearWall(maze, x, y) ELSE maze
    /\ pc' = AfterKey(key)
    /\ key' = (key + 1) % 4
    /\ UNCHANGED << screenWidth, screenHeight, selectedButton,
                    showCharacterSelection, difficulty, gameStarted, mazePtr,
                    playerPtr, stack, fault, calls >>

\* One of lines 316-319 with its key down: player->move(dx, dy, *maze), in
\* which GetTime() returns some currentTime not before the last one.
KeyDown ==
    /\ pc = "key"
    /\ \E currentTime \in now..MaxTime :
        MoveCall(KeyDelta(key)[1], KeyDelta(key)[2], currentTime)
    /\ pc' = AfterKey(key)
    /\ key' = (key + 1) % 4
    /\ UNCHANGED << screenWidth, screenHeight, selectedButton,
                    showCharacterSelection, difficulty, gameStarted, mazePtr,
                    playerPtr, maze, stack, fault, calls >>

\* The rest of a game frame when the player is not on the exit (line 321
\* false, then the drawing of lines 332-338).
FrameEnd ==
    /\ pc = "exit"
    /\ ~isExit(maze, player.x, player.y)
    /\ pc' = "loop"
    /\ UNCHANGED << screenWidth, screenHeight, selectedButton,
                    showCharacterSelection, difficulty, gameStarted, mazePtr,
                    playerPtr, maze, player, stack, key, now, fault, lastCall,
                    bumpTime, changeTime,
                    calls >>

\* Mutant of LevelComplete: line 327 is left out.
LevelCompleteKeepsSelection ==
    /\ pc = "exit"
    /\ isExit(maze, player.x, player.y)
    /\ mazePtr' = "dangling"
    /\ playerPtr' = "dangling"
    /\ maze' = NoMaze
    /\ player' = NoPlayer
    /\ gameStarted' = FALSE
    /\ fault' = IF fault = "none" THEN "use_after_free" ELSE fault
    /\ \/ pc' = "crashed"
       \/ pc' = "loop"
    /\ lastCall' = NoCall
    /\ bumpTime' = -1
    /\ changeTime' = -1
    /\ calls' = 0
    /\ UNCHANGED << screenWidth, screenHeight, selectedButton,
                    showCharacterSelection, difficulty, stack, key, now >>

\* The rest of a game frame when the player is on the exit: lines 322-328
\* delete the maze and the player and go back to the menu, and lines 334-337
\* then draw through the two deleted pointers.
LevelComplete ==
    /\ pc = "exit"
    /\ isExit(maze, player.x, player.y)
    /\ mazePtr' = "dangling"
    /\ playerPtr' = "dangling"
    /\ maze' = NoMaze
    /\ player' = NoPlayer
    /\ gameStarted' = FALSE
    /\ showCharacterSelection' = FALSE
    /\ fault' = IF fault = "none" THEN "use_after_free" ELSE fault
    /\ \/ pc' = "crashed"
       \/ pc' = "loop"
    /\ lastCall' = NoCall
    /\ bumpTime' = -1
    /\ changeTime' = -1
    /\ calls' = 0
    /\ UNCHANGED << screenWidth, screenHeight, selectedButton, difficulty, stack,
                    key, now >>

\* Lines 353-354 with no object deleted before: each live object is deleted.
Cleanup ==
    /\ pc = "cleanup"
    /\ mazePtr # "dangling" /\ playerPtr # "dangling"
    /\ pc' = "done"
    /\ mazePtr' = IF mazePtr = "live" THEN "dangling" ELSE mazePtr
    /\ playerPtr' = IF playerPtr = "live" THEN "dangling" ELSE playerPtr
    /\ maze' = NoMaze
    /\ player' = NoPlayer
    /\ UNCHANGED << screenWidth, screenHeight, selectedButton,
                    showCharacterSelection, difficulty, gameStarted, stack, key,
                    now, fault, lastCall, bumpTime, changeTime,
                    calls >>

\* Lines 353-354 after a completed level: the pointers are not null and the
\* objects are deleted a second time.
CleanupDeleted ==
    /\ pc = "cleanup"
    /\ mazePtr = "dangling" \/ playerPtr = "dangling"
    /\ fault' = IF fault = "none" THEN "double_delete" ELSE fault
    /\ \/ pc' = "crashed"
       \/ pc' = "done"
    /\ UNCHANGED << screenWidth, screenHeight, selectedButton,
                    showCharacterSelection, difficulty, gameStarted, mazePtr,
                    playerPtr, maze, player, stack, key, now, lastCall, bumpTime,
                    changeTime,
                    calls >>

Next ==
    \/ MenuFrame
    \/ MenuExit
    \/ WindowClose
    \/ StartGame
    \/ GenCall
    \/ GenCallOutside
    \/ FinishMaze
    \/ PlayBegin
    \/ KeyUp
    \/ KeyDown
    \/ FrameEnd
    \/ LevelComplete
    \/ Cleanup
    \/ CleanupDeleted

Spec == Init /\ [][Next]_vars

---------------------------------------------------------------------------
\* The Maze and Player classes on their own: a maze constructed with any
\* dimensions of Dims, a player created at (1,1) as in line 268, then any
\* sequence of Player::move calls.

\* The state when the constructor Maze(w, h, ...) calls generateMaze.
InitMaze ==
    /\ pc = "gen"
    /\ \E d \in Dims :
        /\ screenWidth = d[1] * CellSizeOf(1)
        /\ screenHeight = d[2] * CellSizeOf(1)
        /\ maze = NewMaze(d[1], d[2])
    /\ selectedButton = 0
    /\ showCharacterSelection = TRUE
    /\ difficulty = 1
    /\ gameStarted = TRUE
    /\ mazePtr = "null"
    /\ playerPtr = "null"
    /\ player = NoPlayer
    /\ stack = << >>
    /\ key = 0
    /\ now = 0
    /\ fault = "none"
    /\ lastCall = NoCall
    /\ bumpTime = -1
    /\ changeTime = -1
    /\ calls = 0

\* The deltas Player::move is called with.
Deltas == { <<dx, dy>> : dx \in -1..1, dy \in -1..1 }

\* Any call of Player::move on the constructed maze.
MoveAny ==
    /\ pc = "loop" /\ playerPtr = "live" /\ mazePtr = "live"
    /\ \E d \in Deltas, currentTime \in now..MaxTime :
        MoveCall(d[1], d[2], currentTime)
    /\ UNCHANGED << pc, screenWidth, screenHeight, selectedButton,
                    showCharacterSelection, difficulty, gameStarted, mazePtr,
                    playerPtr, maze, stack, key, fault, calls >>

NextMaze ==
    \/ GenCall
    \/ GenCallOutside
    \/ FinishMaze
    \/ MoveAny

SpecMaze == InitMaze /\ [][NextMaze]_vars

---------------------------------------------------------------------------
\* Graph notions on a maze, for the properties below.

\* The cells of the grid that are passages.
Passages(m) ==
    { c \in (0..(m.width - 1)) \X (0..(m.height - 1)) : ~m.grid[c[2]][c[1]].isWall }

\* The cells of the grid whose x and y are both odd.
OddCells(m) ==
    { c \in (0..(m.width - 1)) \X (0..(m.height - 1)) : c[1] % 2 = 1 /\ c[2] % 2 = 1 }

\* 4-adjacency.
Adjacent(a, b) ==
    \/ a[1] = b[1] /\ (a[2] = b[2] + 1 \/ a[2] = b[2] - 1)
    \/ a[2] = b[2] /\ (a[1] = b[1] + 1 \/ a[1] = b[1] - 1)

\* The passages joined to a cell of S by a path of 4-adjacent passages.
RECURSIVE ReachFrom(_, _)
ReachFrom(m, S) ==
    LET N == S \cup { c \in Passages(m) : \E a \in S : Adjacent(a, c) }
    IN  IF N = S THEN S ELSE ReachFrom(m, N)

\* The number of simple paths of 4-adjacent passages from a to b that avoid
\* the cells of seen (a is in seen).
RECURSIVE NumPaths(_, _, _, _)
RECURSIVE SumPaths(_, _, _, _)
NumPaths(m, a, b, seen) ==
    IF a = b THEN 1
    ELSE SumPaths(m, { c \in Passages(m) \ seen : Adjacent(a, c) }, b, seen)
SumPaths(m, todo, b, seen) ==
    IF todo = {} THEN 0
    ELSE LET c == CHOOSE c \in todo : TRUE
         IN  NumPaths(m, c, b, seen \cup {c}) + SumPaths(m, todo \ {c}, b, seen)

\* Some 2x2 block of cells consists only of passages.
HasOpenBlock(m) ==
    \E c \in Passages(m) :
        /\ <<c[1] + 1, c[2]>> \in Passages(m)
        /\ <<c[1], c[2] + 1>> \in Passages(m)
        /\ <<c[1] + 1, c[2] + 1>> \in Passages(m)

\* Every passage is joined to (1,1) by exactly one simple path, and no 2x2
\* block is open.
Acyclic(m) ==
    /\ \A c \in Passages(m) : NumPaths(m, <<1, 1>>, c, {<<1, 1>>}) = 1
    /\ ~HasOpenBlock(m)

\* The maze was built with at least 3 columns and 3 rows.
ValidDims == maze.width >= 3 /\ maze.height >= 3

\* The Maze constructor has returned and the objects are in use.
Constructed == pc = "loop" /\ mazePtr = "live" /\ playerPtr = "live"

---------------------------------------------------------------------------
\* C1: in a maze of width >= 3 and height >= 3, a player created at (1,1)
\* stays, through any sequence of Player::move calls with non-decreasing
\* clock values, on a cell inside the grid that is not a wall.
C1_PlayerOnPassage ==
    (Constructed /\ ValidDims) =>
        /\ isInsideGrid(maze, player.x, player.y)
        /\ ~isWall(maze, player.x, player.y)

\* C1's case: the player has moved away from (1,1) in such a maze.
C1_Witness ==
    /\ Constructed /\ ValidDims
    /\ changeTime >= 0
    /\ <<player.x, player.y>> # <<1, 1>>

\* C2: for width >= 3 and height >= 3, once generateMaze has returned, (1,1)
\* is a passage, every cell of the grid with odd x and odd y is a visited
\* passage, and each of them is joined to (1,1) by 4-adjacent passages.
C2_OddCellsConnected ==
    ((pc = "built" \/ Constructed) /\ ValidDims) =>
        /\ ~isWall(maze, 1, 1)
        /\ \A c \in OddCells(maze) :
            /\ maze.grid[c[2]][c[1]].visited
            /\ ~maze.grid[c[2]][c[1]].isWall
            /\ c \in ReachFrom(maze, {<<1, 1>>})

\* C2's case: generateMaze has returned on a grid with four odd cells.
C2_Witness ==
    /\ pc = "built" /\ ValidDims
    /\ Cardinality(OddCells(maze)) = 4

\* C3 as stated: for width >= 3 and height >= 3 of either parity, the maze the
\* constructor returns has no cycle of passages.
C3_AcyclicAnyParity ==
    (Constructed /\ ValidDims) => Acyclic(maze)

\* C3 amended: for odd width >= 3 and odd height >= 3, the maze the
\* constructor returns has no cycle of passages: every passage is joined to
\* (1,1) by exactly one simple path and no 2x2 block is open.
C3_AcyclicOddDims ==
    (Constructed /\ ValidDims /\ maze.width % 2 = 1 /\ maze.height % 2 = 1) =>
        Acyclic(maze)

\* C3's case: a constructed 5x5 maze.
C3_Witness ==
    Constructed /\ maze.width = 5 /\ maze.height = 5

\* C4: for width >= 3 and height >= 3 the one coordinate isExit accepts is
\* (width-2, height-2), a cell of the grid that is not a wall; isExit is
\* false outside the grid.
C4_ExitIsOpenCell ==
    (Constructed /\ ValidDims) =>
        /\ \A x \in -2..(maze.width + 1), y \in -2..(maze.height + 1) :
            /\ isExit(maze, x, y) <=> (x = maze.width - 2 /\ y = maze.height - 2)
            /\ isExit(maze, x, y) => ~isWall(maze, x, y)
            /\ ~isInsideGrid(maze, x, y) => ~isExit(maze, x, y)
        /\ isInsideGrid(maze, maze.width - 2, maze.height - 2)

\* C4's case: a constructed maze whose exit cell generation left a wall.
C4_Witness ==
    /\ Constructed /\ ValidDims
    /\ maze.exitX % 2 = 0 /\ maze.exitY % 2 = 0
    /\ ~maze.grid[maze.exitY][maze.exitX].visited

\* C5: isWall is true at every coordinate outside the grid and is the stored
\* wall flag at every cell of it.
C5_IsWallTotal ==
    (pc \in {"gen", "built", "loop"} /\ maze.width > 0) =>
        \A x \in -2..(maze.width + 1), y \in -2..(maze.height + 1) :
            IF x < 0 \/ x >= maze.width \/ y < 0 \/ y >= maze.height
            THEN isWall(maze, x, y)
            ELSE isWall(maze, x, y) = maze.grid[y][x].isWall

\* C5's case: a constructed maze that has walls and passages.
C5_Witness ==
    /\ Constructed
    /\ Passages(maze) # {}
    /\ \E c \in (0..(maze.width - 1)) \X (0..(maze.height - 1)) : c \notin Passages(maze)

\* C6: a maze of width < 3 or height < 3 is never handed to the caller, and
\* its construction makes no access outside the grid.
C6_SmallDimsRejected ==
    (maze.width < 3 \/ maze.height < 3) =>
        /\ mazePtr # "live"
        /\ fault # "out_of_bounds"

\* A step that is a call of Player::move (the history records each call).
CallStep == lastCall' # lastCall /\ lastCall'.result # "none"

\* The cell a call of Player::move with the recorded deltas would enter.
Candidate(p, c) == << p.x + c.dx, p.y + c.dy >>

\* C7: a call of Player::move made less than moveCooldown after lastMoveTime
\* leaves x, y and lastMoveTime as they were, whatever dx, dy and the maze.
C7_CooldownNoOp ==
    [][ (CallStep /\ lastCall'.time - player.lastMoveTime < moveCooldown)
            => player' = player ]_vars

\* C7's case: a call was rejected on timing though its candidate cell is open.
C7_Witness ==
    /\ Constructed
    /\ lastCall.result = "cooldown"
    /\ <<lastCall.dx, lastCall.dy>> # <<0, 0>>
    /\ ~isWall(maze, Candidate(player, lastCall)[1], Candidate(player, lastCall)[2])

\* C8: a call of Player::move made moveCooldown or more after lastMoveTime
\* towards a wall or out of the grid leaves the position and sets
\* lastMoveTime to the call's time; and any call made less than moveCooldown
\* after such a bump changes nothing.
C8_WallBumpResets ==
    [][ CallStep =>
          LET t == lastCall'.time
              c == Candidate(player, lastCall')
          IN  /\ (t - player.lastMoveTime >= moveCooldown /\ isWall(maze, c[1], c[2]))
                    => /\ player'.x = player.x
                       /\ player'.y = player.y
                       /\ player'.lastMoveTime = t
              /\ (bumpTime >= 0 /\ t - bumpTime < moveCooldown)
                    => player' = player ]_vars

\* C8's case: less than moveCooldown after a wall bump, a call towards an
\* open cell was rejected.
C8_Witness ==
    /\ Constructed
    /\ bumpTime >= 0
    /\ lastCall.result = "cooldown"
    /\ lastCall.time - bumpTime < moveCooldown
    /\ <<lastCall.dx, lastCall.dy>> # <<0, 0>>
    /\ ~isWall(maze, Candidate(player, lastCall)[1], Candidate(player, lastCall)[2])

\* C9: a call of Player::move made moveCooldown or more after lastMoveTime
\* towards a passage puts the player at exactly (x+dx, y+dy) and sets
\* lastMoveTime to the call's time.
C9_PassageMove ==
    [][ CallStep =>
          LET t == lastCall'.time
              c == Candidate(player, lastCall')
          IN  (t - player.lastMoveTime >= moveCooldown /\ ~isWall(maze, c[1], c[2]))
                  => player' = [x |-> c[1], y |-> c[2], lastMoveTime |-> t] ]_vars

\* C9's case: a call has moved the player up or down.
C9_Witness ==
    /\ Constructed
    /\ lastCall.result = "moved"
    /\ lastCall.dy # 0
    /\ player.lastMoveTime = lastCall.time

\* The time of the session's last call that passed the test of line 134, or -1.
LastPass == IF bumpTime >= changeTime THEN bumpTime ELSE changeTime

\* C10: in the game loop, within a session, a change of the player's position
\* is a step of one cell in one of the four directions and comes at least
\* moveCooldown after the previous change; and a call made less than
\* moveCooldown after a call that passed the cooldown test (a later key of the
\* same frame, say) changes nothing.
C10_MovesSpaced ==
    [][ pc = "key" =>
          /\ (<<player'.x, player'.y>> # <<player.x, player.y>>)
                => /\ <<player'.x - player.x, player'.y - player.y>>
                          \in { <<0, -1>>, <<0, 1>>, <<-1, 0>>, <<1, 0>> }
                   /\ changeTime >= 0 => now' - changeTime >= moveCooldown
          /\ (CallStep /\ LastPass >= 0 /\ now' - LastPass < moveCooldown)
                => player' = player ]_vars

\* C10's case: the player has changed position twice in one session.
C10_Witness ==
    /\ gameStarted /\ playerPtr = "live"
    /\ player.x >= 3
    /\ changeTime >= 2 * moveCooldown

---------------------------------------------------------------------------
\* The cells of the grid marked visited.
Visited(m) ==
    { c \in (0..(m.width - 1)) \X (0..(m.height - 1)) : m.grid[c[2]][c[1]].visited }

\* C12: for width >= 3 and height >= 3, generateMaze terminates: every step
\* of generation is one call of generateMazeRecursive, and while generation
\* runs fewer calls have been made than there are odd-odd cells. Each call is
\* made on a cell of the grid that is unvisited at entry and marks that cell
\* alone, so the number of calls and the recursion depth never exceed the
\* number of odd-odd cells, itself at most width*height/4; when generateMaze
\* returns each odd-odd cell has been entered once.
C12_GenerationBounded ==
    /\ []((pc \in {"gen", "built"} /\ ValidDims) =>
            /\ calls = Cardinality(Visited(maze))
            /\ Visited(maze) \subseteq OddCells(maze)
            /\ 4 * Cardinality(OddCells(maze)) <= maze.width * maze.height
            /\ IF pc = "gen"
               THEN /\ calls < Cardinality(OddCells(maze))
                    /\ Len(stack) + 1 <= Cardinality(OddCells(maze))
                    /\ isInsideGrid(maze, Target(stack)[1], Target(stack)[2])
               ELSE /\ calls = Cardinality(OddCells(maze))
                    /\ stack = << >>)
    /\ [][(pc = "gen" /\ ValidDims) =>
            /\ calls' = calls + 1
            /\ ~maze.grid[Target(stack)[2]][Target(stack)[1]].visited
            /\ Visited(maze') = Visited(maze) \cup {Target(stack)}]_vars

\* C12's case: generateMaze has returned after four calls, the deepest of
\* them at depth four.
C12_Witness ==
    /\ pc = "built" /\ ValidDims
    /\ calls = 4
    /\ Cardinality(OddCells(maze)) = 4

\* C13: once the Maze constructor has returned, no step of the game loop made
\* while the maze is allocated (a Player::move call with its isWall query, the
\* isExit test, the end of a frame, the start of the next one) changes a
\* cell's flags, the dimensions or the exit coordinate.
C13_GridFrozen ==
    [][(mazePtr = "live" /\ mazePtr' = "live") => maze' = maze]_vars

\* C13's case: in a session of the game the player has bumped into a wall and
\* has moved.
C13_Witness ==
    /\ gameStarted /\ mazePtr = "live"
    /\ pc = "exit"
    /\ bumpTime >= 0
    /\ changeTime >= 0
    /\ ~isExit(maze, player.x, player.y)

\* C14: in every maze constructed with width >= 3 and height >= 3, of either
\* parity, the exit cell (width-2, height-2) is joined to the start (1,1) by a
\* path of 4-adjacent passages.
C14_ExitReachable ==
    (Constructed /\ ValidDims) =>
        /\ <<maze.exitX, maze.exitY>> = <<maze.width - 2, maze.height - 2>>
        /\ <<maze.exitX, maze.exitY>> \in ReachFrom(maze, {<<1, 1>>})

\* C14's case: accepted moves have brought the player from (1,1) onto an exit
\* that generation had left a wall (both dimensions even).
C14_Witness ==
    /\ Constructed /\ ValidDims
    /\ maze.width % 2 = 0 /\ maze.height % 2 = 0
    /\ isExit(maze, player.x, player.y)
    /\ changeTime >= 0

\* The passages that are not odd-odd cells: the carved corridor cells.
Corridors(m) == Passages(m) \ OddCells(m)

\* C15: during generation a corridor cell is opened only towards a two-step
\* neighbour that is inside the grid and unvisited, immediately before the
\* call that enters it: while that call is pending the corridor cells are as
\* many as the visited cells. When generateMaze returns, before the exit is
\* set, the corridor cells are one fewer than the visited odd-odd cells and
\* the passages form a tree: each is joined to (1,1) by exactly one path.
C15_CorridorsFormTree ==
    isInsideGrid(maze, 1, 1) =>
        /\ (pc = "gen" /\ stack = << >>) => Passages(maze) = {}
        /\ (pc = "gen" /\ stack # << >>) =>
              LET f == stack[Len(stack)]
                  t == NextCell(f, f.i)
                  b == Between(f, f.i)
              IN  /\ isInsideGrid(maze, t[1], t[2])
                  /\ ~maze.grid[t[2]][t[1]].visited
                  /\ maze.grid[t[2]][t[1]].isWall
                  /\ b \in Corridors(maze)
                  /\ Cardinality(Corridors(maze)) = Cardinality(Visited(maze))
        /\ pc = "built" =>
              /\ Cardinality(Corridors(maze)) = Cardinality(Visited(maze)) - 1
              /\ Visited(maze) = OddCells(maze)
              /\ Acyclic(maze)

\* C15's case: generateMaze has returned with three corridor cells carved
\* between four visited cells.
C15_Witness ==
    /\ pc = "built"
    /\ Cardinality(Corridors(maze)) = 3
    /\ Cardinality(Visited(maze)) = 4

\* The four unit directions.
UnitDirections == { <<0, -1>>, <<0, 1>>, <<-1, 0>>, <<1, 0>> }

\* d holds each of the four unit directions exactly once.
IsOrdering(d) == DOMAIN d = 0..3 /\ { d[i] : i \in 0..3 } = UnitDirections

\* The orderings of the four unit directions.
Orderings == { d \in [0..3 -> UnitDirections] : IsOrdering(d) }

\* Each swap of the shuffle loop keeps an ordering an ordering, and the draw
\* sequences map one-to-one onto the orderings.
ShuffleOneToOne ==
    /\ \A d \in Orderings, i \in 0..3 :
          \A j \in i..3 : IsOrdering(SwapDirections(d, i, j))
    /\ \A j1 \in Draws, j2 \in Draws : Shuffle(j1) = Shuffle(j2) => j1 = j2
    /\ { Shuffle(j) : j \in Draws } = Orderings

\* C16: the shuffle loop always leaves directions a permutation of the four
\* unit directions, each present once; there are 24 draw sequences and they
\* map one-to-one onto the 24 orderings.
C16_ShufflePermutes ==
    /\ \A n \in 1..Len(stack) : IsOrdering(stack[n].directions)
    /\ Cardinality(Draws) = 24
    /\ Cardinality(Orderings) = 24
    /\ ShuffleOneToOne

\* C16's case: a call of generateMazeRecursive is suspended with its
\* directions in the reverse of their initial order.
C16_Witness ==
    /\ pc = "gen" /\ stack # << >>
    /\ \A i \in 0..3 : stack[Len(stack)].directions[i] = InitialDirections[3 - i]

\* C17: a frame whose movement keys leave the player on the exit tears the
\* session down in that frame: both objects are deleted and gameStarted and
\* showCharacterSelection become false. A session that is started builds its
\* maze from a grid of unvisited walls and puts a new player at (1,1). And no
\* frame begins its movement step with the player on the exit of a maze with
\* width > 3 and height > 3.
C17_ExitEndsSession ==
    [][ /\ (pc = "exit" /\ isExit(maze, player.x, player.y)) =>
              /\ mazePtr' = "dangling" /\ playerPtr' = "dangling"
              /\ ~gameStarted' /\ ~showCharacterSelection'
              /\ pc' # "key"
        /\ (pc = "loop" /\ pc' = "gen") =>
              /\ gameStarted'
              /\ Passages(maze') = {} /\ Visited(maze') = {}
        /\ (pc = "built" /\ pc' = "loop") =>
              /\ mazePtr' = "live" /\ playerPtr' = "live"
              /\ <<player'.x, player'.y>> = <<1, 1>>
              /\ player'.lastMoveTime = 0
        /\ (pc = "key" /\ key = 0 /\ maze.width > 3 /\ maze.height > 3) =>
              ~isExit(maze, player.x, player.y) ]_vars

\* C17's case: a second session runs on a 4x4 maze after a first one was
\* torn down on its exit (the pointers were made to dangle, then set anew),
\* and its player has moved.
C17_Witness ==
    /\ pc = "key" /\ key = 0
    /\ maze.width = 4 /\ maze.height = 4
    /\ fault = "use_after_free"
    /\ mazePtr = "live" /\ playerPtr = "live"
    /\ changeTime >= 0

\* C18: whenever the game loop dereferences maze or player (the calls of
\* lines 316-321 and the drawing of lines 334-337) the object is allocated and
\* not deleted, the drawing of the frame that reaches the exit included.
C18_NoUseAfterDelete ==
    /\ pc \in {"key", "exit"} => (mazePtr = "live" /\ playerPtr = "live")
    /\ fault # "use_after_free"

\* C19: lines 353-354 never delete an object that was deleted before, and
\* when main has returned no object is left allocated.
C19_DeletedOnce ==
    /\ pc = "cleanup" => (mazePtr # "dangling" /\ playerPtr # "dangling")
    /\ pc = "done" => (mazePtr # "live" /\ playerPtr # "live")

\* C20: in a maze constructed with width >= 3 and height >= 3, row 0 and
\* column 0 are all walls, every cell with even x and even y other than the
\* exit is a wall, column width-1 is all walls when width is odd and row
\* height-1 is all walls when height is odd.
C20_WallBorder ==
    (Constructed /\ ValidDims) =>
        \A x \in 0..(maze.width - 1), y \in 0..(maze.height - 1) :
            /\ (x = 0 \/ y = 0) => maze.grid[y][x].isWall
            /\ (x % 2 = 0 /\ y % 2 = 0 /\ ~isExit(maze, x, y)) => maze.grid[y][x].isWall
            /\ (maze.width % 2 = 1 /\ x = maze.width - 1) => maze.grid[y][x].isWall
            /\ (maze.height % 2 = 1 /\ y = maze.height - 1) => maze.grid[y][x].isWall

\* C20's case: a constructed maze of odd width and even height, whose last
\* row holds a passage while its last column is closed.
C20_Witness ==
    /\ Constructed
    /\ maze.width = 5 /\ maze.height = 4
    /\ \E x \in 0..4 : ~maze.grid[3][x].isWall

====
